---- MODULE Spec2Model ----
(***************************************************************************)
(* A model of exiftool-rs (src/src/lib.rs): one ExifTool session, i.e. one *)
(* child process with three pipes behind a tokio Mutex, and a number of    *)
(* concurrent ExifTool::execute calls on it.                               *)
(*                                                                         *)
(* Bytes are natural numbers (their ASCII codes); byte buffers (Vec<u8>,   *)
(* &str) are sequences of bytes.                                           *)
(***************************************************************************)
EXTENDS Integers, Sequences, FiniteSets, TLC

(***************************************************************************)
(* Bounds of the model.                                                    *)
(***************************************************************************)
\* number of concurrent execute calls on the session
NumCalls == 2

Calls == 1 .. NumCalls
NoCall == 0

(***************************************************************************)
(* Bytes.                                                                  *)
(***************************************************************************)
TAB == 9
LF == 10
SP == 32
PLUS == 43
DIGIT0 == 48
U8_MAX == 255

\* "="
SEQ_ERR_STATUS_DELIM == <<61>>
\* "-execute"
STR_execute == <<45, 101, 120, 101, 99, 117, 116, 101>>
\* "{ready"
STR_ready_open == <<123, 114, 101, 97, 100, 121>>
\* "}"
STR_ready_close == <<125>>
\* "post"
STR_post == <<112, 111, 115, 116>>
\* "-echo4"
STR_echo4 == <<45, 101, 99, 104, 111, 52>>
\* "${status}"
seq_err_status == <<36, 123, 115, 116, 97, 116, 117, 115, 125>>
\* let signal_num = 193280; // TODO: random #
SIGNAL_NUM == 193280
\* the block_size execute passes to read_fd_ends_with
BLOCK_SIZE == 4096

(***************************************************************************)
(* Helpers on byte buffers.                                                *)
(***************************************************************************)
Min(a, b) == IF a <= b THEN a ELSE b
Max(a, b) == IF a >= b THEN a ELSE b

\* v[..n] / Vec::truncate(n): the first n bytes (all of v when n >= len)
Truncate(v, n) == SubSeq(v, 1, Min(n, Len(v)))
\* v[n..]: v without its first n bytes
DropFirst(v, n) == SubSeq(v, n + 1, Len(v))

\* slice::ends_with
ends_with(v, s) ==
  /\ Len(v) >= Len(s)
  /\ SubSeq(v, Len(v) - Len(s) + 1, Len(v)) = s

\* bstr find: does s occur in v ?
find_is_some(v, s) ==
  \E i \in 1 .. (Len(v) - Len(s) + 1) : SubSeq(v, i, i + Len(s) - 1) = s

\* bstr rfind: the 0-based index of the last occurrence of s in v, -1 for None
rfind(v, s) ==
  LET hits == {i \in 0 .. (Len(v) - Len(s)) : SubSeq(v, i + 1, i + Len(s)) = s}
  IN  IF hits = {} THEN -1 ELSE CHOOSE i \in hits : \A j \in hits : j <= i

\* format!("{}", n) of an unsigned number: its decimal digits
RECURSIVE Decimal(_)
Decimal(n) ==
  IF n < 10 THEN <<DIGIT0 + n>> ELSE Decimal(n \div 10) \o <<DIGIT0 + (n % 10)>>

(***************************************************************************)
(* trim_end, lines 10-24.                                                  *)
(***************************************************************************)
is_whitespace(c) == c = TAB \/ c = SP

is_not_whitespace(c) == ~is_whitespace(c)

\* v.iter().rposition(is_not_whitespace) gives the 0-based index `first` of
\* the last byte that is no tab or space; v.truncate(first) keeps the `first`
\* bytes before it.
trim_end(v) ==
  LET idx == {i \in 0 .. (Len(v) - 1) : is_not_whitespace(v[i + 1])}
  IN  IF idx # {}
        THEN Truncate(v, CHOOSE i \in idx : \A j \in idx : j <= i)
        ELSE Truncate(v, 0)

(***************************************************************************)
(* The sentinel tokens and the request message, lines 78-101.              *)
(***************************************************************************)
seq_execute(n) == STR_execute \o Decimal(n)

seq_ready(n) == STR_ready_open \o Decimal(n) \o STR_ready_close

seq_err_post(n) == STR_post \o Decimal(n)

\* format!("{SEQ_ERR_STATUS_DELIM}{seq_err_status}{SEQ_ERR_STATUS_DELIM}{seq_err_post}")
echo_line(n) ==
  SEQ_ERR_STATUS_DELIM \o seq_err_status \o SEQ_ERR_STATUS_DELIM \o seq_err_post(n)

\* an encoder that pushes its directives in front of the parameters
cmd_params_front(ps, n) == <<STR_echo4, echo_line(n)>> \o ps \o <<seq_execute(n)>>

cmd_params(ps, n) == ps \o <<STR_echo4, echo_line(n), seq_execute(n)>>

RECURSIVE JoinLines(_)
JoinLines(ps) ==
  IF ps = <<>> THEN <<>> ELSE Head(ps) \o <<LF>> \o JoinLines(Tail(ps))

Message(ps, n) == JoinLines(cmd_params(ps, n))

(***************************************************************************)
(* The stop test of read_fd_ends_with, lines 29 and 39-41: the terminator  *)
(* occurs in the last len(seq_ready) + 2 bytes of the accumulator.         *)
(***************************************************************************)
endswith_count(t) == Len(t) + 2

\* a reader that wants the terminator to be the very end of the accumulator
window_found_suffix(output, t) == ends_with(output, t)

window_found(output, t) ==
  find_is_some(DropFirst(output, Max(Len(output) - endswith_count(t), 0)), t)

(***************************************************************************)
(* The response decoder, lines 118-143.                                    *)
(***************************************************************************)
\* the value of a sequence of decimal digits
RECURSIVE DigitsValue(_)
DigitsValue(d) ==
  IF d = <<>> THEN 0
  ELSE 10 * DigitsValue(SubSeq(d, 1, Len(d) - 1)) + (d[Len(d)] - DIGIT0)

IsDigits(d) == \A i \in 1 .. Len(d) : d[i] >= DIGIT0 /\ d[i] <= DIGIT0 + 9

\* a parse that wraps a value above 255 modulo 256 instead of failing
ParseU8Wrap(b) ==
  LET d == IF b # <<>> /\ b[1] = PLUS THEN Tail(b) ELSE b
  IN  IF d = <<>> \/ ~IsDigits(d) THEN -1
      ELSE DigitsValue(d) % (U8_MAX + 1)

\* u8::from_str(std::str::from_utf8(b).unwrap()).unwrap(): an optional '+',
\* then at least one decimal digit, value at most 255; -1 stands for the
\* panic of either unwrap.
ParseU8(b) ==
  LET d == IF b # <<>> /\ b[1] = PLUS THEN Tail(b) ELSE b
  IN  IF d = <<>> \/ ~IsDigits(d) THEN -1
      ELSE IF DigitsValue(d) > U8_MAX THEN -1
      ELSE DigitsValue(d)

\* v.truncate(v.len() - m), lines 120-121. When v is shorter than m the
\* subtraction overflows: a build with overflow checks panics (None here),
\* a build without them wraps to a huge length and truncate changes nothing.
NoBuf == <<-1>>

truncate_by(v, m, overflow_checks) ==
  IF Len(v) >= m THEN Truncate(v, Len(v) - m)
  ELSE IF overflow_checks THEN NoBuf
  ELSE v

NoResult == [kind |-> "none", status |-> 0, output |-> <<>>, error |-> <<>>]

Panic(why) == [kind |-> why, status |-> 0, output |-> <<>>, error |-> <<>>]

ExifToolOutput(status_code, out, err) ==
  [kind |-> "ok", status |-> status_code, output |-> out, error |-> err]

\* a decoder that cuts the error text at the first delimiter of the buffer
DecodeStatusFirstDelim(out, err) ==
  LET delim_len == Len(SEQ_ERR_STATUS_DELIM)
      next_delim == rfind(Truncate(err, Len(err) - delim_len), SEQ_ERR_STATUS_DELIM)
      first_delim == CHOOSE i \in 0 .. (Len(err) - 1) :
                       /\ err[i + 1] = SEQ_ERR_STATUS_DELIM[1]
                       /\ \A j \in 0 .. (i - 1) : err[j + 1] # SEQ_ERR_STATUS_DELIM[1]
      status_code == SubSeq(err, next_delim + delim_len + 1, Len(err) - delim_len)
  IN  IF next_delim = -1 THEN Panic("no_prev_delim")
      ELSE IF ParseU8(status_code) = -1 THEN Panic("bad_status")
      ELSE ExifToolOutput(ParseU8(status_code), out, Truncate(err, first_delim))

\* lines 128-137, on an error buffer that ends with the delimiter
DecodeStatus(out, err) ==
  LET delim_len == Len(SEQ_ERR_STATUS_DELIM)
      next_delim == rfind(Truncate(err, Len(err) - delim_len), SEQ_ERR_STATUS_DELIM)
      status_code == SubSeq(err, next_delim + delim_len + 1, Len(err) - delim_len)
  IN  IF next_delim = -1 THEN Panic("no_prev_delim")
      ELSE IF ParseU8(status_code) = -1 THEN Panic("bad_status")
      ELSE ExifToolOutput(ParseU8(status_code), out, Truncate(err, next_delim))

\* a decoder that takes a missing delimiter for status 0
CheckDelimDefault(out, err) ==
  IF ~ends_with(err, SEQ_ERR_STATUS_DELIM) THEN ExifToolOutput(0, out, err)
  ELSE DecodeStatus(out, err)

\* lines 123-126: the error buffer must end with the delimiter
CheckDelim(out, err) ==
  IF ~ends_with(err, SEQ_ERR_STATUS_DELIM) THEN Panic("no_delim")
  ELSE DecodeStatus(out, err)

\* lines 118-143 on the two raw buffers of a call with signal number n
Decode(raw_out, raw_err, n, overflow_checks) ==
  \* out and err range over one value each: the buffers after lines 118-121
  CHOOSE r \in
    {IF out = NoBuf \/ err = NoBuf THEN Panic("overflow") ELSE CheckDelim(out, err) :
       out \in {truncate_by(trim_end(raw_out), Len(seq_ready(n)), overflow_checks)},
       err \in {truncate_by(trim_end(raw_err), Len(seq_err_post(n)), overflow_checks)}} :
    TRUE

(***************************************************************************)
(* The child process (exiftool -stay_open True -@ -), as lines 80-85 and   *)
(* the markers the reader waits for describe it: it reads one request, up  *)
(* to its -execute<N> line, and answers with its output followed by        *)
(* {ready<N>} and a line feed on stdout, and with its error text followed  *)
(* by the -echo4 text and a line feed on stderr, ${status} replaced by the *)
(* exit status.                                                            *)
(***************************************************************************)
\* the index of the first line feed of m, Len(m) + 1 when it has none
FirstLF(m) ==
  LET nl == {i \in 1 .. Len(m) : m[i] = LF}
  IN  IF nl = {} THEN Len(m) + 1 ELSE CHOOSE i \in nl : \A j \in nl : i <= j

\* the lines of a message, without their line feeds
RECURSIVE SplitLines(_)
SplitLines(m) ==
  IF m = <<>> THEN <<>>
  ELSE \* k ranges over one value: FirstLF(m) is evaluated once
       CHOOSE ls \in {<<SubSeq(m, 1, k - 1)>> \o SplitLines(DropFirst(m, k)) :
                        k \in {FirstLF(m)}} : TRUE

\* line with the first ${status} replaced by the decimal status
ExpandStatus(line, status) ==
  LET at == {i \in 0 .. (Len(line) - Len(seq_err_status)) :
               SubSeq(line, i + 1, i + Len(seq_err_status)) = seq_err_status}
      i0 == CHOOSE i \in at : \A j \in at : i <= j
  IN  IF at = {} THEN line
      ELSE Truncate(line, i0) \o Decimal(status)
             \o DropFirst(line, i0 + Len(seq_err_status))

\* the suffix N of the last of the request's lines ls, -execute<N>
ExecuteSuffix(ls) == DropFirst(ls[Len(ls)], Len(STR_execute))

\* the text of the request's -echo4 argument (the line before -execute<N>)
EchoText(ls) == ls[Len(ls) - 1]

\* what the child writes to stdout and to stderr when it answers r to the
\* request with lines ls
ChildStdout(ls, r) ==
  r.out \o STR_ready_open \o ExecuteSuffix(ls) \o STR_ready_close \o <<LF>>

ChildStderr(ls, r) ==
  r.err \o ExpandStatus(EchoText(ls), r.status) \o <<LF>>

(***************************************************************************)
(* Inputs.                                                                 *)
(***************************************************************************)
\* parameter lists of the calls: none, <<"-ver">>, and <<"-b", "-ver">>
ParamLists ==
  { <<>>,
    <<<<45, 118, 101, 114>>>>,
    <<<<45, 98>>, <<45, 118, 101, 114>>>> }

\* answers of the child: its output text, its error text, its exit status
Responses ==
  { \* nothing on either stream, status 0
    [out |-> <<>>, err |-> <<>>, status |-> 0],
    \* "ok", and "w=1" (an error text that holds a delimiter), status 5
    [out |-> <<111, 107>>, err |-> <<119, 61, 49>>, status |-> 5],
    \* " " and "\t " (texts of whitespace only), status 255
    [out |-> <<SP>>, err |-> <<TAB, SP>>, status |-> U8_MAX] }

NoResp == [out |-> <<>>, err |-> <<>>, status |-> -1]

(***************************************************************************)
(* State.                                                                  *)
(***************************************************************************)
VARIABLES
  pc,              \* where each call is in execute
  process,         \* ExifTool.process, the Mutex: the call holding it, or NoCall
  child_alive,     \* the child runs and holds its ends of the three pipes
  stdin,           \* requests written to the child's input, not yet read by it
  stdout,          \* bytes in the child's output pipe, not yet read
  stderr,          \* bytes in the child's error pipe, not yet read
  signal_num,      \* execute's signal_num, per call
  params,          \* execute's params, per call, until its request is written
  message,         \* execute's message, per call
  raw_stdout,      \* execute's raw_stdout (the reader's accumulator), per call
  raw_stderr,      \* execute's raw_stderr (the reader's accumulator), per call
  sleeping,        \* the call's reader is in tokio::time::sleep after a 0-byte read
  result,          \* what execute returned, or the panic that ended it
  overflow_checks, \* the build checks arithmetic overflow (debug) or wraps (release)
  written,         \* history: the calls in the order their requests were written
  resp,            \* history: the child's answer to each call's request
  read_failed,     \* history: a read of the call returned Err
  after_failure    \* history: the call took the lock after a call had failed

vars ==
  <<pc, process, child_alive, stdin, stdout, stderr, signal_num, params,
    message, raw_stdout, raw_stderr, sleeping, result, overflow_checks,
    written, resp, read_failed, after_failure>>

Reading == {"read_stdout", "read_stderr"}
\* the call holds the Mutex guard (lines 104-116)
Locked == {"write", "read_stdout", "read_stderr", "release"}
Finished == {"returned", "failed"}

Init ==
  /\ pc = [c \in Calls |-> "idle"]
  /\ process = NoCall
  /\ child_alive = TRUE
  /\ stdin = <<>>
  /\ stdout = <<>>
  /\ stderr = <<>>
  /\ signal_num = [c \in Calls |-> 0]
  /\ params = [c \in Calls |-> <<>>]
  /\ message = [c \in Calls |-> <<>>]
  /\ raw_stdout = [c \in Calls |-> <<>>]
  /\ raw_stderr = [c \in Calls |-> <<>>]
  /\ sleeping = [c \in Calls |-> FALSE]
  /\ result = [c \in Calls |-> NoResult]
  /\ overflow_checks \in BOOLEAN
  /\ written = <<>>
  /\ resp = [c \in Calls |-> NoResp]
  /\ read_failed = [c \in Calls |-> FALSE]
  /\ after_failure = [c \in Calls |-> FALSE]

(***************************************************************************)
(* execute, lines 77-144, one action per step of a call.                   *)
(***************************************************************************)
\* a lock that is handed out while another call holds it
LockNoWait(c) ==
  /\ pc[c] = "idle"
  /\ \E ps \in ParamLists :
       /\ signal_num' = [signal_num EXCEPT ![c] = SIGNAL_NUM]
       /\ message' = [message EXCEPT ![c] = Message(ps, SIGNAL_NUM)]
       /\ params' = [params EXCEPT ![c] = ps]
  /\ process' = c
  /\ pc' = [pc EXCEPT ![c] = "write"]
  /\ after_failure' =
       [after_failure EXCEPT ![c] = \E a \in Calls : pc[a] = "failed"]
  /\ UNCHANGED <<child_alive, stdin, stdout, stderr, raw_stdout, raw_stderr,
                 sleeping, result, overflow_checks, written, resp,
                 read_failed>>

\* lines 78-104: the sentinels and the request message are built, then
\* self.process.lock().await gives the call the guard once no call holds it
Lock(c) ==
  /\ pc[c] = "idle"
  /\ process = NoCall
  /\ \E ps \in ParamLists :
       /\ signal_num' = [signal_num EXCEPT ![c] = SIGNAL_NUM]
       /\ message' = [message EXCEPT ![c] = Message(ps, SIGNAL_NUM)]
       /\ params' = [params EXCEPT ![c] = ps]
  /\ process' = c
  /\ pc' = [pc EXCEPT ![c] = "write"]
  /\ after_failure' =
       [after_failure EXCEPT ![c] = \E a \in Calls : pc[a] = "failed"]
  /\ UNCHANGED <<child_alive, stdin, stdout, stderr, raw_stdout, raw_stderr,
                 sleeping, result, overflow_checks, written, resp,
                 read_failed>>

\* a write whose panic leaves the lock held
WriteKeepsLock(c) ==
  /\ pc[c] = "write"
  /\ IF child_alive
       THEN /\ stdin' = Append(stdin, message[c])
            /\ written' = Append(written, c)
            /\ pc' = [pc EXCEPT ![c] = "read_stdout"]
            /\ UNCHANGED <<process, result>>
       ELSE /\ result' = [result EXCEPT ![c] = Panic("write_failed")]
            /\ process' = process
            /\ pc' = [pc EXCEPT ![c] = "failed"]
            /\ UNCHANGED <<stdin, written>>
  /\ message' = [message EXCEPT ![c] = <<>>]
  /\ params' = [params EXCEPT ![c] = <<>>]
  /\ UNCHANGED <<child_alive, stdout, stderr, signal_num, raw_stdout,
                 raw_stderr, sleeping, overflow_checks, resp, read_failed,
                 after_failure>>

\* lines 105-107: write_all and flush; the unwrap panics when the child is
\* gone, and the unwinding drops the guard
Write(c) ==
  /\ pc[c] = "write"
  /\ IF child_alive
       THEN /\ stdin' = Append(stdin, message[c])
            /\ written' = Append(written, c)
            /\ pc' = [pc EXCEPT ![c] = "read_stdout"]
            /\ UNCHANGED <<process, result>>
       ELSE /\ result' = [result EXCEPT ![c] = Panic("write_failed")]
            /\ process' = NoCall
            /\ pc' = [pc EXCEPT ![c] = "failed"]
            /\ UNCHANGED <<stdin, written>>
  /\ message' = [message EXCEPT ![c] = <<>>]
  /\ params' = [params EXCEPT ![c] = <<>>]
  /\ UNCHANGED <<child_alive, stdout, stderr, signal_num, raw_stdout,
                 raw_stderr, sleeping, overflow_checks, resp, read_failed,
                 after_failure>>

\* the terminator the call's current reader waits for (lines 110, 113)
Terminator(c) ==
  IF pc[c] = "read_stdout" THEN seq_ready(signal_num[c])
  ELSE seq_err_post(signal_num[c])

\* the stream the call's current reader reads, and its accumulator
Fd(c) == IF pc[c] = "read_stdout" THEN stdout ELSE stderr

Output(c) == IF pc[c] = "read_stdout" THEN raw_stdout[c] ELSE raw_stderr[c]

\* an execute that leaves the locked block after its first reader
AfterReaderOnce(c) == "release"

\* where execute goes on when its current reader returns
AfterReader(c) == IF pc[c] = "read_stdout" THEN "read_stderr" ELSE "release"

\* the reader's accumulator becomes output, the stream fd; the reader
\* returns when done
ReaderStep(c, output, fd, done) ==
  /\ IF pc[c] = "read_stdout"
       THEN /\ raw_stdout' = [raw_stdout EXCEPT ![c] = output]
            /\ stdout' = fd
            /\ UNCHANGED <<raw_stderr, stderr>>
       ELSE /\ raw_stderr' = [raw_stderr EXCEPT ![c] = output]
            /\ stderr' = fd
            /\ UNCHANGED <<raw_stdout, stdout>>
  /\ pc' = [pc EXCEPT ![c] = IF done THEN AfterReader(c) ELSE pc[c]]

\* lines 33-44, Ok(n) with n > 0: a read gives the next n bytes of the pipe
ReadChunk(c) ==
  /\ pc[c] \in Reading
  /\ ~sleeping[c]
  /\ \E n \in 1 .. Min(Len(Fd(c)), BLOCK_SIZE) :
       LET output == Output(c) \o Truncate(Fd(c), n)
       IN  ReaderStep(c, output, DropFirst(Fd(c), n),
                      window_found(output, Terminator(c)))
  /\ UNCHANGED <<process, child_alive, stdin, signal_num, message, params, sleeping,
                 result, overflow_checks, written, resp, read_failed,
                 after_failure>>

\* lines 33-37, Ok(0): the pipe is empty and its write end closed; the
\* reader sleeps. (An empty pipe of a living child blocks the read.)
ReadZero(c) ==
  /\ pc[c] \in Reading
  /\ ~sleeping[c]
  /\ Fd(c) = <<>>
  /\ ~child_alive
  /\ sleeping' = [sleeping EXCEPT ![c] = TRUE]
  /\ UNCHANGED <<pc, process, child_alive, stdin, stdout, stderr, signal_num,
                 message, params, raw_stdout, raw_stderr, result, overflow_checks,
                 written, resp, read_failed,
                 after_failure>>

\* a reader that takes a read of zero bytes for the end of the stream and
\* returns after it
WakeReturn(c) ==
  /\ pc[c] \in Reading
  /\ sleeping[c]
  /\ sleeping' = [sleeping EXCEPT ![c] = FALSE]
  /\ ReaderStep(c, Output(c), Fd(c), TRUE)
  /\ UNCHANGED <<process, child_alive, stdin, signal_num, message, params, result,
                 overflow_checks, written, resp, read_failed,
                 after_failure>>

\* lines 38-44 after the sleep: nothing is appended, the test is repeated
Wake(c) ==
  /\ pc[c] \in Reading
  /\ sleeping[c]
  /\ sleeping' = [sleeping EXCEPT ![c] = FALSE]
  /\ ReaderStep(c, Output(c), Fd(c), window_found(Output(c), Terminator(c)))
  /\ UNCHANGED <<process, child_alive, stdin, signal_num, message, params, result,
                 overflow_checks, written, resp, read_failed,
                 after_failure>>

\* a reader that reads again after a read error
ReadErrRetry(c) ==
  /\ pc[c] \in Reading
  /\ ~sleeping[c]
  /\ Fd(c) = <<>>
  /\ child_alive
  /\ read_failed' = [read_failed EXCEPT ![c] = TRUE]
  /\ ReaderStep(c, Output(c), Fd(c), FALSE)
  /\ UNCHANGED <<process, child_alive, stdin, signal_num, message, params, sleeping,
                 result, overflow_checks, written, resp,
                 after_failure>>

\* line 46, Err(_): the reader returns what it has. The streams are the
\* pipes of the child (ChildStdout, ChildStderr): their read fails when a
\* signal interrupts it while it waits for data (ErrorKind::Interrupted),
\* that is, on the empty pipe of a living child.
ReadErr(c) ==
  /\ pc[c] \in Reading
  /\ ~sleeping[c]
  /\ Fd(c) = <<>>
  /\ child_alive
  /\ read_failed' = [read_failed EXCEPT ![c] = TRUE]
  /\ ReaderStep(c, Output(c), Fd(c), TRUE)
  /\ UNCHANGED <<process, child_alive, stdin, signal_num, message, params, sleeping,
                 result, overflow_checks, written, resp,
                 after_failure>>

\* lines 115-116: the guard is dropped at the end of the block
Release(c) ==
  /\ pc[c] = "release"
  /\ process' = NoCall
  /\ pc' = [pc EXCEPT ![c] = "decode"]
  /\ UNCHANGED <<child_alive, stdin, stdout, stderr, signal_num, message, params,
                 raw_stdout, raw_stderr, sleeping, result, overflow_checks,
                 written, resp, read_failed,
                 after_failure>>

\* lines 118-143: decode and return, or panic
DecodeStep(c) ==
  /\ pc[c] = "decode"
  /\ LET r == Decode(raw_stdout[c], raw_stderr[c], signal_num[c], overflow_checks)
     IN  /\ result' = [result EXCEPT ![c] = r]
         /\ pc' = [pc EXCEPT ![c] = IF r.kind = "ok" THEN "returned" ELSE "failed"]
  /\ UNCHANGED <<process, child_alive, stdin, stdout, stderr, signal_num,
                 message, params, raw_stdout, raw_stderr, sleeping, overflow_checks,
                 written, resp, read_failed,
                 after_failure>>

(***************************************************************************)
(* The child.                                                              *)
(***************************************************************************)
\* the call whose request is the oldest one in stdin
Requester == written[Len(written) - Len(stdin) + 1]

ChildRespond ==
  /\ child_alive
  /\ stdin # <<>>
  /\ \E r \in Responses, ls \in {SplitLines(Head(stdin))} :
       /\ stdout' = stdout \o ChildStdout(ls, r)
       /\ stderr' = stderr \o ChildStderr(ls, r)
       /\ resp' = [resp EXCEPT ![Requester] = r]
  /\ stdin' = Tail(stdin)
  /\ UNCHANGED <<pc, process, child_alive, signal_num, message, params, raw_stdout,
                 raw_stderr, sleeping, result, overflow_checks, written,
                 read_failed,
                 after_failure>>

\* the child exits: its pipe ends close, unread requests are lost
ChildExit ==
  /\ child_alive
  /\ child_alive' = FALSE
  /\ stdin' = <<>>
  /\ UNCHANGED <<pc, process, stdout, stderr, signal_num, message, params, raw_stdout,
                 raw_stderr, sleeping, result, overflow_checks, written, resp,
                 read_failed,
                 after_failure>>

CallStep(c) ==
  \/ Lock(c)
  \/ Write(c)
  \/ ReadChunk(c)
  \/ ReadZero(c)
  \/ Wake(c)
  \/ ReadErr(c)
  \/ Release(c)
  \/ DecodeStep(c)

Next ==
  \/ \E c \in Calls : CallStep(c)
  \/ ChildRespond
  \/ ChildExit

Spec == Init /\ [][Next]_vars

\* the scheduler runs every call that can take a step, and a living child
\* answers the requests it is sent
FairSpec ==
  /\ Spec
  /\ \A c \in Calls : WF_vars(CallStep(c))
  /\ WF_vars(ChildRespond)

TypeOK ==
  /\ pc \in [Calls -> {"idle", "write", "read_stdout", "read_stderr",
                       "release", "decode", "returned", "failed"}]
  /\ process \in Calls \cup {NoCall}
  /\ child_alive \in BOOLEAN

(***************************************************************************)
(* The decoder on its own: lines 118-143 applied to raw buffers as the     *)
(* readers of lines 110 and 113 may return them, whatever the child wrote. *)
(***************************************************************************)
\* raw output buffers: "ok{ready193280}\n" and "{ready193280}\n"
OutBufs ==
  { t \o seq_ready(SIGNAL_NUM) \o <<LF>> : t \in {<<111, 107>>, <<>>} }

\* the texts a child may put between the delimiters for ${status}:
\* "5", "0", "255", "007", "256", "+5", "+", "x" and ""
StatusFields ==
  { <<53>>, <<48>>, <<50, 53, 53>>, <<48, 48, 55>>, <<50, 53, 54>>,
    <<PLUS, 53>>, <<PLUS>>, <<120>>, <<>> }

\* raw error buffers: "=<field>=post193280\n" for each field, the same after
\* the error text "w=1" for two of them, "5=" and "=5" before the marker
\* (one delimiter only), and the empty buffer
ErrBufs ==
  { SEQ_ERR_STATUS_DELIM \o f \o SEQ_ERR_STATUS_DELIM
      \o seq_err_post(SIGNAL_NUM) \o <<LF>> : f \in StatusFields }
  \cup
  { <<119, 61, 49>> \o SEQ_ERR_STATUS_DELIM \o f \o SEQ_ERR_STATUS_DELIM
      \o seq_err_post(SIGNAL_NUM) \o <<LF>> : f \in {<<53>>, <<PLUS, 53>>} }
  \cup
  { e \o seq_err_post(SIGNAL_NUM) \o <<LF>> :
      e \in {<<53>> \o SEQ_ERR_STATUS_DELIM, SEQ_ERR_STATUS_DELIM \o <<53>>} }
  \cup
  { <<>> }

\* every call has left the locked section (line 116) with some raw buffers
DecoderInit ==
  /\ pc = [c \in Calls |-> "decode"]
  /\ process = NoCall
  /\ child_alive = TRUE
  /\ stdin = <<>>
  /\ stdout = <<>>
  /\ stderr = <<>>
  /\ signal_num = [c \in Calls |-> SIGNAL_NUM]
  /\ params = [c \in Calls |-> <<>>]
  /\ message = [c \in Calls |-> <<>>]
  /\ raw_stdout \in [Calls -> OutBufs]
  /\ raw_stderr \in [Calls -> ErrBufs]
  /\ sleeping = [c \in Calls |-> FALSE]
  /\ result = [c \in Calls |-> NoResult]
  /\ overflow_checks \in BOOLEAN
  /\ written = <<>>
  /\ resp = [c \in Calls |-> NoResp]
  /\ read_failed = [c \in Calls |-> FALSE]
  /\ after_failure = [c \in Calls |-> FALSE]

DecoderNext == \E c \in Calls : DecodeStep(c)

DecoderSpec == DecoderInit /\ [][DecoderNext]_vars

(***************************************************************************)
(* Properties.                                                             *)
(***************************************************************************)
\* a's request was written before b's
WrittenBefore(a, b) ==
  \E i, j \in 1 .. Len(written) : i < j /\ written[i] = a /\ written[j] = b

\* the call has left the locked section with its two raw buffers
Unlocked == {"decode", "returned", "failed"}

\* what a child that answers r to a call with signal number n puts on its
\* output and error streams
WireStdout(r, n) == r.out \o seq_ready(n) \o <<LF>>

WireStderr(r, n) ==
  r.err \o SEQ_ERR_STATUS_DELIM \o Decimal(r.status) \o SEQ_ERR_STATUS_DELIM
    \o seq_err_post(n) \o <<LF>>

NoReadFailed == \A c \in Calls : ~read_failed[c]

\* t occurs in the last Len(t) + 2 bytes of acc
TailHas(acc, t) ==
  \E i \in 1 .. Len(acc) :
    /\ i + Len(t) - 1 <= Len(acc)
    /\ i >= Len(acc) - (Len(t) + 2) + 1
    /\ \A k \in 1 .. Len(t) : acc[i + k - 1] = t[k]

\* C1: at most one call is between acquiring the process lock and the end of
\* its error-stream read (writing to the child or reading from it) at any time.
MutualExclusion == Cardinality({c \in Calls : pc[c] \in Locked}) <= 1

\* C1, reached: a call reads the child's output under the lock after an
\* earlier call has released it
MutualExclusionWitness ==
  \E a, b \in Calls :
    /\ written = <<a, b>>
    /\ pc[a] = "returned"
    /\ pc[b] = "read_stdout"
    /\ process = b

\* C2: a call whose request the child answered with output O, error text E and
\* status s returns exactly (s, O, E), however the bytes are split into reads
\* (no read failing).
ExactFraming ==
  \A c \in Calls :
    (pc[c] \in Finished /\ resp[c] # NoResp /\ NoReadFailed)
      => result[c] = ExifToolOutput(resp[c].status, resp[c].out, resp[c].err)

\* C3: a call whose request was written later never returns before a call
\* whose request was written earlier.
ResponseOrder ==
  \A a, b \in Calls :
    (WrittenBefore(a, b) /\ pc[b] = "returned") => pc[a] \in Finished

\* C3, amended: calls leave the locked write/read section in the order their
\* requests were written: once a later call has written its request, every
\* call that wrote earlier has its raw buffers and has released the lock.
CycleOrder ==
  \A a, b \in Calls : WrittenBefore(a, b) => pc[a] \in Unlocked

\* C3, amended, reached: the later call has returned while the earlier one
\* has yet to decode
CycleOrderWitness ==
  \E a, b \in Calls :
    /\ WrittenBefore(a, b)
    /\ pc[a] = "decode"
    /\ pc[b] = "returned"

\* C4: a raw error buffer T ++ "=" ++ decimal(s) ++ "=" ++ err_post, with
\* nothing after the marker, decodes to status s and error text T.
DecodeMarkerAtEnd ==
  \A c \in Calls :
    \A r \in Responses :
      ( /\ pc[c] \in Finished
        /\ raw_stdout[c] = WireStdout(r, signal_num[c])
        /\ raw_stderr[c] = r.err \o SEQ_ERR_STATUS_DELIM \o Decimal(r.status)
                             \o SEQ_ERR_STATUS_DELIM \o seq_err_post(signal_num[c]) )
        => /\ result[c].kind = "ok"
           /\ result[c].status = r.status
           /\ result[c].error = r.err

\* the error buffer of a call after lines 119 and 121 (NoBuf: line 121 panicked)
StrippedErr(c) ==
  truncate_by(trim_end(raw_stderr[c]), Len(seq_err_post(signal_num[c])),
              overflow_checks)

\* C5: when the error buffer, trimmed and with the marker removed, does not
\* end with the delimiter, execute fails and returns no result, with status 0
\* or any other.
MissingDelimFails ==
  \A c \in Calls :
    (pc[c] \in Finished /\ result[c].kind # "write_failed"
       /\ ~ends_with(StrippedErr(c), SEQ_ERR_STATUS_DELIM))
      => /\ pc[c] = "failed"
         /\ result[c].kind \in {"no_delim", "overflow"}

\* C5, reached: a call has failed on an error buffer without the delimiter
MissingDelimWitness ==
  \E c \in Calls :
    /\ pc[c] = "failed"
    /\ result[c].kind = "no_delim"
    /\ StrippedErr(c) # <<>>
    /\ ~ends_with(StrippedErr(c), SEQ_ERR_STATUS_DELIM)

\* C6: a call in which a read failed before its terminator was found (or the
\* write failed, or the status protocol is violated) never returns a result.
AllOrNothing ==
  \A c \in Calls : pc[c] = "returned" => ~read_failed[c]

\* C7: every call that has acquired the lock eventually returns or fails.
NoBlockForever ==
  \A c \in Calls : (pc[c] = "write") ~> (pc[c] \in Finished)

\* C8: a read that appends bytes appends the next bytes of the stream, in
\* order, and the reader returns after it exactly when the last len(t) + 2
\* bytes of the accumulator hold the terminator t; a reader that is not
\* running (it has returned) reads nothing more.
ReaderStops ==
  [][\A c \in Calls :
       /\ (pc[c] = "read_stdout" /\ raw_stdout'[c] # raw_stdout[c])
            => /\ raw_stdout'[c] \o stdout' = raw_stdout[c] \o stdout
               /\ (pc'[c] # "read_stdout")
                    <=> TailHas(raw_stdout'[c], seq_ready(signal_num[c]))
       /\ (pc[c] = "read_stderr" /\ raw_stderr'[c] # raw_stderr[c])
            => /\ raw_stderr'[c] \o stderr' = raw_stderr[c] \o stderr
               /\ (pc'[c] # "read_stderr")
                    <=> TailHas(raw_stderr'[c], seq_err_post(signal_num[c]))
       /\ pc[c] # "read_stdout" => raw_stdout'[c] = raw_stdout[c]
       /\ pc[c] # "read_stderr" => raw_stderr'[c] = raw_stderr[c]
       /\ (\A d \in Calls : pc[d] # "read_stdout") => Len(stdout') >= Len(stdout)
       /\ (\A d \in Calls : pc[d] # "read_stderr") => Len(stderr') >= Len(stderr)
    ]_vars

\* C8, reached: both readers of a call have returned on their terminators,
\* the output reader with the text, the marker and the line feed after it
ReaderStopsWitness ==
  \E c \in Calls :
    /\ pc[c] = "release"
    /\ ~read_failed[c]
    /\ resp[c] # NoResp
    /\ resp[c].out # <<>>
    /\ raw_stdout[c] = WireStdout(resp[c], signal_num[c])
    /\ TailHas(raw_stderr[c], seq_err_post(signal_num[c]))

\* C9: two calls on the session never use the same suffix, and the three
\* tokens of a call are pairwise distinct.
FreshSentinels ==
  \A a, b \in Calls :
    (a # b /\ pc[a] # "idle" /\ pc[b] # "idle")
      => /\ signal_num[a] # signal_num[b]
         /\ seq_ready(signal_num[a]) # seq_err_post(signal_num[a])
         /\ seq_ready(signal_num[a]) # seq_execute(signal_num[a])
         /\ seq_err_post(signal_num[a]) # seq_execute(signal_num[a])

\* C10: when the stream reads of a call are over, its raw buffers hold all the
\* bytes the child wrote in answer to it (the line feeds included, none left
\* in the pipes) and no others (no read failing).
NoForeignBytes ==
  \A c \in Calls :
    (pc[c] \in {"release"} \cup Unlocked /\ resp[c] # NoResp /\ NoReadFailed)
      => /\ raw_stdout[c] = WireStdout(resp[c], signal_num[c])
         /\ raw_stderr[c] = WireStderr(resp[c], signal_num[c])

\* the bytes of v from the first byte of its last run of tabs and spaces on
\* are all tabs or spaces: v[n + 1 ..] for the least such n
TrailingRunStart(v) ==
  CHOOSE n \in 0 .. Len(v) :
    /\ \A i \in (n + 1) .. Len(v) : v[i] \in {TAB, SP}
    /\ n > 0 => v[n] \notin {TAB, SP}

\* C11: trim_end removes exactly the maximal trailing run of tab and space
\* bytes: a buffer that ends in another byte (a line feed included) is left
\* unchanged, a buffer of tabs and spaces only becomes empty.
TrimEndExact ==
  \A c \in Calls :
    pc[c] = "decode"
      => /\ trim_end(raw_stdout[c]) = SubSeq(raw_stdout[c], 1, TrailingRunStart(raw_stdout[c]))
         /\ trim_end(raw_stderr[c]) = SubSeq(raw_stderr[c], 1, TrailingRunStart(raw_stderr[c]))

\* the stripped error buffer e ends with a delimiter and holds an earlier one
HasField(e) ==
  /\ e # NoBuf
  /\ e # <<>>
  /\ e[Len(e)] = SEQ_ERR_STATUS_DELIM[1]
  /\ \E i \in 1 .. (Len(e) - 1) : e[i] = SEQ_ERR_STATUS_DELIM[1]

\* the place of the second-to-last delimiter of such a buffer
FieldStart(e) ==
  CHOOSE i \in 1 .. (Len(e) - 1) :
    /\ e[i] = SEQ_ERR_STATUS_DELIM[1]
    /\ \A j \in (i + 1) .. (Len(e) - 1) : e[j] # SEQ_ERR_STATUS_DELIM[1]

\* the bytes strictly between its last two delimiters
FieldOf(e) == SubSeq(e, FieldStart(e) + 1, Len(e) - 1)

\* f is a decimal numeral of value s: the digits of s after any number of 0s
IsNumeralOf(f, s) ==
  \E k \in 0 .. Len(f) :
    /\ \A i \in 1 .. k : f[i] = DIGIT0
    /\ SubSeq(f, k + 1, Len(f)) = Decimal(s)

\* C12: execute returns status s only if the bytes between the last two
\* delimiters of the stripped error buffer are a decimal numeral (digits
\* only) of value s, 0 <= s <= 255; in every other case it returns nothing.
StatusIsNumeral ==
  \A c \in Calls :
    pc[c] = "returned"
      => /\ HasField(StrippedErr(c))
         /\ result[c].status \in 0 .. U8_MAX
         /\ IsNumeralOf(FieldOf(StrippedErr(c)), result[c].status)

\* C12, amended: execute returns status s only if that field is a decimal
\* numeral of value s, 0 <= s <= 255, or a '+' followed by such a numeral; in
\* every other case (field empty, a lone '+', another byte that is no digit,
\* a value above 255, no earlier delimiter) it returns nothing.
StatusIsSignedNumeral ==
  \A c \in Calls :
    pc[c] = "returned"
      => /\ HasField(StrippedErr(c))
         /\ result[c].status \in 0 .. U8_MAX
         /\ LET f == FieldOf(StrippedErr(c))
            IN  \/ IsNumeralOf(f, result[c].status)
                \/ /\ f # <<>>
                   /\ f[1] = PLUS
                   /\ IsNumeralOf(Tail(f), result[c].status)

\* C12, amended, reached: one call has returned 5 for the field "+5", another
\* 255 for "255", and a third decode has failed on the field "256"
StatusIsSignedNumeralWitness ==
  \E a, b \in Calls :
    /\ pc[a] = "returned"
    /\ FieldOf(StrippedErr(a)) = <<PLUS, 53>>
    /\ result[a].status = 5
    /\ pc[b] = "failed"
    /\ result[b].kind = "bad_status"
    /\ FieldOf(StrippedErr(b)) = <<50, 53, 54>>

\* C13: when decoding succeeds, the returned error bytes are exactly the bytes
\* of the stripped error buffer before its second-to-last delimiter: the
\* status field and both delimiters go, earlier delimiters in the text stay.
ErrorTextExact ==
  \A c \in Calls :
    pc[c] = "returned"
      => /\ HasField(StrippedErr(c))
         /\ result[c].error =
              SubSeq(StrippedErr(c), 1, FieldStart(StrippedErr(c)) - 1)
         /\ result[c].error \o SEQ_ERR_STATUS_DELIM \o FieldOf(StrippedErr(c))
              \o SEQ_ERR_STATUS_DELIM = StrippedErr(c)

\* C13, reached: a call has returned the error text "w=1", with its
\* delimiter, from the buffer "w=1=5=post193280\n"
ErrorTextExactWitness ==
  \E c \in Calls :
    /\ pc[c] = "returned"
    /\ result[c].status = 5
    /\ result[c].error = <<119, 61, 49>>
    /\ FieldOf(StrippedErr(c)) = <<53>>

\* t holds tabs and spaces only (or nothing)
AllWhitespace(t) == \A i \in 1 .. Len(t) : t[i] \in {TAB, SP}

\* C14: a call whose answer had an output (resp. error text) of tabs and
\* spaces only, or an empty one, does not fail and returns the empty output
\* (resp. error); stated for a call that read the whole answer, line feeds
\* included, and nothing else.
WhitespaceOnlyEmpty ==
  \A c \in Calls :
    ( /\ pc[c] \in Finished
      /\ resp[c] # NoResp
      /\ raw_stdout[c] = WireStdout(resp[c], signal_num[c])
      /\ raw_stderr[c] = WireStderr(resp[c], signal_num[c]) )
      => /\ AllWhitespace(resp[c].out)
              => (result[c].kind = "ok" /\ result[c].output = <<>>)
         /\ AllWhitespace(resp[c].err)
              => (result[c].kind = "ok" /\ result[c].error = <<>>)

\* C15: a read of zero bytes (the reader goes into its pause, or comes out of
\* it) leaves the accumulators unchanged and the reader running, ready to read
\* again; a reader none of whose reads failed returns only when the last
\* len(t) + 2 bytes of its accumulator hold its terminator t.
ZeroReadTolerated ==
  [][\A c \in Calls :
       /\ (pc[c] \in Reading /\ sleeping'[c] # sleeping[c])
            => /\ pc'[c] = pc[c]
               /\ raw_stdout'[c] = raw_stdout[c]
               /\ raw_stderr'[c] = raw_stderr[c]
       /\ (pc[c] = "read_stdout" /\ pc'[c] # pc[c] /\ ~read_failed'[c])
            => TailHas(raw_stdout'[c], seq_ready(signal_num[c]))
       /\ (pc[c] = "read_stderr" /\ pc'[c] # pc[c] /\ ~read_failed'[c])
            => TailHas(raw_stderr'[c], seq_err_post(signal_num[c]))
    ]_vars

\* C15, reached: a reader that holds some bytes, not its terminator, is in the
\* pause after a read of zero bytes
ZeroReadToleratedWitness ==
  \E c \in Calls :
    /\ pc[c] \in Reading
    /\ sleeping[c]
    /\ Output(c) # <<>>
    /\ ~TailHas(Output(c), Terminator(c))

\* C16: the step in which a read of a call fails ends the call's current
\* reader: the call goes on to what follows the reader with its accumulators
\* as they were, nothing is taken from the streams, and no failure is
\* recorded in the call's result; a reader that has returned reads no more.
ReadErrorEndsReader ==
  [][\A c \in Calls :
       /\ (~read_failed[c] /\ read_failed'[c])
            => /\ pc[c] \in Reading
               /\ pc'[c] = AfterReader(c)
               /\ raw_stdout'[c] = raw_stdout[c]
               /\ raw_stderr'[c] = raw_stderr[c]
               /\ stdout' = stdout
               /\ stderr' = stderr
               /\ result'[c] = NoResult
       /\ pc[c] # "read_stdout" => raw_stdout'[c] = raw_stdout[c]
       /\ pc[c] # "read_stderr" => raw_stderr'[c] = raw_stderr[c]
    ]_vars

\* C16, reached: the output reader of a call has returned on a read error
\* with some bytes but no terminator, and the call has gone on to decode them
ReadErrorEndsReaderWitness ==
  \E c \in Calls :
    /\ read_failed[c]
    /\ pc[c] \in Finished
    /\ raw_stdout[c] # <<>>
    /\ ~TailHas(raw_stdout[c], seq_ready(signal_num[c]))

\* the order of the phases of one call
PhaseSteps ==
  { <<"idle", "write">>, <<"write", "read_stdout">>, <<"write", "failed">>,
    <<"read_stdout", "read_stderr">>, <<"read_stderr", "release">>,
    <<"release", "decode">>, <<"decode", "returned">>, <<"decode", "failed">> }

\* C17: a call goes through its phases in order: the request is written whole,
\* once, at the step from the write to the output read; only a call reading
\* the output stream takes bytes from it, only a call reading the error
\* stream takes bytes from that one, and the error read follows the return of
\* the output reader; the lock is released after the return of the error
\* reader (or when the write fails) and the result is made after that.
PhaseOrder ==
  [][\A c \in Calls :
       /\ pc'[c] # pc[c] => <<pc[c], pc'[c]>> \in PhaseSteps
       /\ (pc[c] = "write" /\ pc'[c] = "read_stdout")
            => /\ written' = Append(written, c)
               /\ stdin' = Append(stdin, message[c])
       /\ ~(pc[c] = "write" /\ pc'[c] = "read_stdout")
            => Cardinality({i \in 1 .. Len(written') : written'[i] = c})
                 = Cardinality({i \in 1 .. Len(written) : written[i] = c})
       /\ Cardinality({i \in 1 .. Len(written') : written'[i] = c}) <= 1
       /\ raw_stdout'[c] # raw_stdout[c] => pc[c] = "read_stdout"
       /\ raw_stderr'[c] # raw_stderr[c] => pc[c] = "read_stderr"
       /\ Len(stdout') < Len(stdout) => \E d \in Calls : pc[d] = "read_stdout"
       /\ Len(stderr') < Len(stderr) => \E d \in Calls : pc[d] = "read_stderr"
       /\ (process = c /\ process' # c)
            => \/ pc[c] = "release" /\ pc'[c] = "decode"
               \/ pc[c] = "write" /\ pc'[c] = "failed"
       /\ result'[c] # result[c] => pc[c] \in {"write", "decode"}
    ]_vars

\* C17, reached: a call has gone through all its phases and returned what it
\* read from the two streams
PhaseOrderWitness ==
  \E c \in Calls :
    /\ pc[c] = "returned"
    /\ written = <<c>>
    /\ resp[c] # NoResp
    /\ raw_stdout[c] = WireStdout(resp[c], signal_num[c])
    /\ raw_stderr[c] = WireStderr(resp[c], signal_num[c])
    /\ process = NoCall

\* the first k of the lines ls, a line feed after each
RECURSIVE LinesUpTo(_, _)
LinesUpTo(ls, k) ==
  IF k = 0 THEN <<>> ELSE LinesUpTo(ls, k - 1) \o ls[k] \o <<LF>>

\* C18: the message a call writes to the child's input is its parameters in
\* order, each followed by a line feed, then "-echo4", "=${status}=" ++
\* err_post and the execute marker, each followed by a line feed; when no
\* parameter holds a line feed it has n + 3 lines and ends with the marker.
RequestEncoding ==
  [][\A c \in Calls :
       (pc[c] = "write" /\ pc'[c] = "read_stdout")
         => LET m == stdin'[Len(stdin')]
                n == Len(params[c])
                last == <<LF>> \o seq_execute(signal_num[c]) \o <<LF>>
            IN  /\ stdin' = Append(stdin, m)
                /\ m = LinesUpTo(params[c], n)
                         \o <<45, 101, 99, 104, 111, 52, LF>>
                         \o <<61, 36, 123, 115, 116, 97, 116, 117, 115, 125, 61>>
                         \o seq_err_post(signal_num[c]) \o <<LF>>
                         \o seq_execute(signal_num[c]) \o <<LF>>
                /\ (\A i \in 1 .. n : \A k \in 1 .. Len(params[c][i]) :
                      params[c][i][k] # LF)
                     => /\ Cardinality({i \in 1 .. Len(m) : m[i] = LF}) = n + 3
                        /\ SubSeq(m, Len(m) - Len(last) + 1, Len(m)) = last
    ]_vars

\* C18, reached: the child's input holds the request of a call with the
\* parameters "-b" and "-ver":
\* "-b\n-ver\n-echo4\n=${status}=post193280\n-execute193280\n"
RequestEncodingWitness ==
  \E c \in Calls :
    /\ pc[c] = "read_stdout"
    /\ stdin # <<>>
    /\ stdin[Len(stdin)] =
         <<45, 98, 10, 45, 118, 101, 114, 10,
           45, 101, 99, 104, 111, 52, 10,
           61, 36, 123, 115, 116, 97, 116, 117, 115, 125, 61,
           112, 111, 115, 116, 49, 57, 51, 50, 56, 48, 10,
           45, 101, 120, 101, 99, 117, 116, 101, 49, 57, 51, 50, 56, 48, 10>>

\* C19: once a call on the session has failed (on its write or in its
\* decoding), no call that begins after that returns a result.
FailureIsFatal ==
  \A b \in Calls : after_failure[b] => pc[b] # "returned"

\* C20: the process lock is held only by a call between its lock acquisition
\* and the end of the locked block, right after the return of its error
\* reader; a call that has returned, failed on its write or failed in its
\* decoding holds no lock.
LockNeverLeaks ==
  /\ process # NoCall => pc[process] \in Locked
  /\ \A c \in Calls : pc[c] \in Finished \cup {"decode", "idle"} => process # c

\* C20, reached: a call has failed in its decoding and a call that began
\* after that holds the lock and reads
LockNeverLeaksWitness ==
  \E a, b \in Calls :
    /\ pc[a] = "failed"
    /\ result[a].kind \in {"no_delim", "overflow", "bad_status", "no_prev_delim"}
    /\ after_failure[b]
    /\ process = b
    /\ pc[b] = "read_stdout"

====
